---------------------------- MODULE Spec2Model ----------------------------
(***************************************************************************)
(* Audionodes native engine (src/native/audionodes.cpp): the node table,   *)
(* the construction-link batch, the graph builder                          *)
(* audionodes_finish_tree_update, the message queue between the control    *)
(* thread and the render thread, and the render callback audio_callback.   *)
(*                                                                         *)
(* Two threads are modelled.  The control thread runs the FFI operations   *)
(* one after the other (pc_ctl is its position); the render thread runs    *)
(* audio_callback (pc_cb is its position).  SDL runs the callback with the *)
(* device lock held, and SDL_LockAudioDevice takes the same lock: dev_lock *)
(* says who holds it.                                                      *)
(*                                                                         *)
(* Undefined behaviour (a dereference of the null pointer that             *)
(* std::map::operator[] inserts for an absent key, an access to a deleted  *)
(* node or tree) may do anything from there on: the model records it in    *)
(* the variable fault and follows the run no further.                      *)
(***************************************************************************)
EXTENDS Integers, Sequences, FiniteSets, TLC

(***************************************************************************)
(* Bounds of the model.                                                    *)
(***************************************************************************)
\* Spec: identifiers node_storage_alloc hands out, links per batch, parameter
\* updates per run
MaxNodes == 2
MaxLinks == 1
MaxMsgs == 2
\* SpecBuild: identifiers and links per batch
BuildNodes == 3
BuildLinks == 3
\* SpecGraph: identifiers and links per batch
GraphNodes == 2
GraphLinks == 1
\* SpecQueue: identifiers and parameter updates per run
QueueNodes == 1
QueueMsgs == 3
\* SpecOrder: identifiers and parameter updates per run
OrderNodes == 2
OrderMsgs == 3
\* SpecDelivery: identifiers and parameter updates per run
DeliveryNodes == 1
DeliveryMsgs == 2
\* SpecLength: identifiers and parameter updates per run
LengthNodes == 1
LengthMsgs == 2
\* SpecLoop: identifiers and links per batch
LoopNodes == 2
LoopLinks == 2
\* SpecCalls: identifiers and parameter updates per run
CallNodes == 2
CallMsgs == 1
\* SpecRender: identifiers
RenderNodes == 1
\* slots of msg_queue; the code's CircularBuffer holds 256
QueueCapacity == 2
\* samples per block (the code's N) in the render specification
BlockLen == 1
\* a sample is k / SampleDen, k in -SampleMax .. SampleMax
SampleDen == 2
SampleMax == 4

(***************************************************************************)
(* Program constants.                                                      *)
(***************************************************************************)
\* send_message: for (size_t rep = 0; rep < 10 && msg_queue.full(); ++rep)
MaxRep == 10
\* audio_callback: maximum_value = (1 << 15)-1, minimum_value = -(1 << 15)
maximum_value == 32767
minimum_value == -32768

\* audionodes_create_node's result for an invalid type; also "no identifier"
NoNode == -1
\* the address of no NodeTree
nullptr == 0
\* the addresses operator new may give a NodeTree: two are live at most
TreeAddrs == {1, 2}

VARIABLES
  node_storage,          \* std::map<node_uid, Node*>: id |-> node record
  node_storage_counter,  \* next identifier
  main_node_tree,        \* the active NodeTree (addr = nullptr: none)
  msg_queue,             \* CircularBuffer<Message, 256>
  links,                 \* the batch begin_tree_update returned: [open, v]
  pc_ctl,                \* control thread: "idle" or the step of the running call
  msg,                   \* send_message: its parameter
  rep,                   \* send_message: the wait loop's counter
  build,                 \* finish_tree_update: its locals after line 304
  pc_cb,                 \* render thread: "idle" or "drain"
  cb_tree,               \* address of the NodeTree the running callback found
  dev_lock,              \* "free", "control" or "render"
  result,                \* audio_callback: the block evaluate() returned
  stream,                \* the device's output buffer
  tree_heap,             \* addresses of the NodeTree objects not yet deleted
  fault,                 \* "" or the undefined behaviour the run ended in
  report,                \* diagnostic of the control thread's last call ("" none)
  cb_report,             \* diagnostic of the last audio_callback ("" none)
  issued,                \* number of parameter updates issued so far
  log,                   \* what became of the messages, in order: [value, event]
  payload,               \* binary payloads: message value |-> owner
  rebuild                \* what the finish_tree_update just run did

vars == << node_storage, node_storage_counter, main_node_tree, msg_queue, links,
           pc_ctl, msg, rep, build, pc_cb, cb_tree, dev_lock, result, stream,
           tree_heap,
           fault, report, cb_report, issued, log, payload, rebuild >>

(***************************************************************************)
(* Helpers.                                                                *)
(***************************************************************************)
Range(s) == { s[i] : i \in 1..Len(s) }

\* the keys of a std::map in iteration order (ascending)
RECURSIVE SortedSeq(_)
SortedSeq(S) ==
  IF S = {} THEN << >>
  ELSE LET m == CHOOSE x \in S : \A y \in S : x <= y
       IN << m >> \o SortedSeq(S \ {m})

RECURSIVE Reverse(_)
Reverse(s) == IF s = << >> THEN << >> ELSE Reverse(Tail(s)) \o << Head(s) >>

\* std::map<node_uid, int>::operator[]: an absent key reads as 0
Count(cnt, id) == IF id \in DOMAIN cnt THEN cnt[id] ELSE 0
Put(f, k, v) == [ x \in (DOMAIN f) \cup {k} |-> IF x = k THEN v ELSE f[x] ]

Ids(n) == 0 .. (n - 1)
Exists(id) == id \in DOMAIN node_storage

(***************************************************************************)
(* Nodes.  The Node class is declared outside src/; what the engine uses   *)
(* of it: the sink flag and socket count fixed by its type, the deletion   *)
(* and connection marks, and the values the setters store.                 *)
(***************************************************************************)
NodeTypes == {"sink", "osc"}
InputSockets == {0}
OutputSockets == {0}

\* the node get_node_types().at(type)() returns
NewNode(type) ==
  [ is_sink |-> (type = "sink"), mark_deletion |-> FALSE, mark_connected |-> FALSE,
    tmp_connected |-> FALSE, input_value |-> 0, property |-> 0, binary |-> 0 ]

\* NodeTree::Link() and NodeTree::Link(present, from_node, from_socket)
AbsentLink == [ present |-> FALSE, from_node |-> 0, from_socket |-> 0 ]
Link(p, n, s) == [ present |-> p, from_node |-> n, from_socket |-> s ]

\* NodeTree::ConstructionLink {from_node, to_node, from_socket, to_socket}
ConstructionLink(f, t, fs, ts) ==
  [ from_node |-> f, to_node |-> t, from_socket |-> fs, to_socket |-> ts ]

(***************************************************************************)
(* audionodes_finish_tree_update, lines 228-295: the evaluation order.     *)
(* ns is node_storage, ls the batch.                                       *)
(***************************************************************************)
\* lines 230-232: links_to[id], in the batch's order
LinksTo(ls, id) == SelectSeq(ls, LAMBDA l : l.to_node = id)

\* lines 239-242: marked_for_deletion
MarkedForDeletion(ns) == SortedSeq({ id \in DOMAIN ns : ns[id].mark_deletion })

\* a faulty variant of Sinks that forgets line 240's deletion test
SinksIgnoringDeletion(ns) == SortedSeq({ id \in DOMAIN ns : ns[id].is_sink })

\* lines 243-247: the non-deleted sinks, in node_storage's order
Sinks(ns) ==
  SortedSeq({ id \in DOMAIN ns : ~ns[id].mark_deletion /\ ns[id].is_sink })

\* lines 252-258, the links into one node.  st = [tpq, tp, cnt, fault]:
\* to_process_q, to_process, links_from_count, and the identifier whose
\* absent node line 253 dereferenced (NoNode: none)
RECURSIVE ReachLinks(_, _, _)
ReachLinks(ns, st, ll) ==
  IF ll = << >> \/ st.fault # NoNode THEN st
  ELSE LET f == Head(ll).from_node IN
    IF f \notin DOMAIN ns THEN [ st EXCEPT !.fault = f ]
    ELSE IF ns[f].mark_deletion THEN ReachLinks(ns, st, Tail(ll))
    ELSE LET c == Put(st.cnt, f, Count(st.cnt, f) + 1) IN
      IF f \in st.tp
      THEN ReachLinks(ns, [ st EXCEPT !.cnt = c ], Tail(ll))
      ELSE ReachLinks(ns, [ st EXCEPT !.cnt = c, !.tp = @ \cup {f},
                                      !.tpq = Append(@, f) ], Tail(ll))

\* lines 250-259
RECURSIVE Reach(_, _, _, _)
Reach(ns, ls, st, i) ==
  IF i > Len(st.tpq) \/ st.fault # NoNode THEN st
  ELSE Reach(ns, ls, ReachLinks(ns, st, LinksTo(ls, st.tpq[i])), i + 1)

\* lines 262-268, the links into one node.  st = [q, cnt]
RECURSIVE OrderLinks(_, _, _)
OrderLinks(tp, st, ll) ==
  IF ll = << >> THEN st
  ELSE LET f == Head(ll).from_node IN
    IF f \notin tp THEN OrderLinks(tp, st, Tail(ll))
    ELSE LET n == Count(st.cnt, f) - 1
             c == Put(st.cnt, f, n) IN
      IF n = 0
      THEN OrderLinks(tp, [ q |-> Append(st.q, f), cnt |-> c ], Tail(ll))
      ELSE OrderLinks(tp, [ q |-> st.q, cnt |-> c ], Tail(ll))

\* lines 260-269
RECURSIVE Order(_, _, _, _)
Order(ls, tp, st, i) ==
  IF i > Len(st.q) THEN st
  ELSE Order(ls, tp, OrderLinks(tp, st, LinksTo(ls, st.q[i])), i + 1)

\* lines 291-294, the links into the node at position i.
\* st = [idx, fl]: node_index and the node's final_links vector
RECURSIVE ResolveLinks(_, _, _)
ResolveLinks(tp, st, ll) ==
  IF ll = << >> THEN st
  ELSE LET l == Head(ll) IN
    IF l.from_node \notin tp THEN ResolveLinks(tp, st, Tail(ll))
    ELSE LET ix == IF l.from_node \in DOMAIN st.idx THEN st.idx
                   ELSE Put(st.idx, l.from_node, 0)
         IN ResolveLinks(tp,
              [ idx |-> ix,
                fl |-> [ st.fl EXCEPT ![l.to_socket] =
                           Link(TRUE, ix[l.from_node], l.from_socket) ] ],
              Tail(ll))

\* lines 285-295.  q is one-based here, positions are the code's (zero-based).
\* st = [idx, links]: node_index and final_links so far
RECURSIVE Resolve(_, _, _, _, _)
Resolve(ls, tp, q, st, i) ==
  IF i > Len(q) THEN st
  ELSE LET id == q[i]
           r == ResolveLinks(tp,
                  [ idx |-> Put(st.idx, id, i - 1),
                    fl |-> [ s \in InputSockets |-> AbsentLink ] ],
                  LinksTo(ls, id))
       IN Resolve(ls, tp, q, [ idx |-> r.idx, links |-> Append(st.links, r.fl) ],
                  i + 1)

\* lines 228-295 as a whole: [fault, loop, tp, order, links, marked]
BuildOrder(ns, ls) ==
  LET sinks == Sinks(ns)
      r == Reach(ns, ls, [ tpq |-> sinks, tp |-> Range(sinks),
                           cnt |-> << >>, fault |-> NoNode ], 1)
      o == Order(ls, r.tp, [ q |-> sinks, cnt |-> r.cnt ], 1)
      q == Reverse(o.q)
      f == Resolve(ls, r.tp, q, [ idx |-> << >>, links |-> << >> ], 1)
  IN IF r.fault # NoNode
     THEN [ fault |-> r.fault, loop |-> FALSE, tp |-> {}, order |-> << >>,
            links |-> << >>, marked |-> << >> ]
     ELSE IF Len(o.q) < Cardinality(r.tp)
     THEN [ fault |-> NoNode, loop |-> TRUE, tp |-> r.tp, order |-> << >>,
            links |-> << >>, marked |-> << >> ]
     ELSE [ fault |-> NoNode, loop |-> FALSE, tp |-> r.tp, order |-> q,
            links |-> f.links, marked |-> MarkedForDeletion(ns) ]

(***************************************************************************)
(* Messages and the queue.                                                 *)
(***************************************************************************)
MsgTypes == {"audio_input", "property", "binary"}

\* Message::Message(node, slot, ...): the value carried is v
Message(type, node, v) == [ type |-> type, node |-> node, slot |-> 0, value |-> v ]
NoMessage == Message("audio_input", NoNode, 0)

\* CircularBuffer<Message, 256>: a bounded first-in first-out channel.
\* full() and empty(), push(m), and pop(), which returns the oldest message
Full(q) == Len(q) >= QueueCapacity
Empty(q) == Len(q) = 0
Push(q, m) == Append(q, m)
Pop(q) == [ msg |-> Head(q), queue |-> Tail(q) ]

\* Message::apply(), lines 31-43, on the node table ns
ApplyTo(ns, m) ==
  CASE m.type = "audio_input" -> [ ns EXCEPT ![m.node].input_value = m.value ]
    [] m.type = "property"    -> [ ns EXCEPT ![m.node].property = m.value ]
    [] m.type = "binary"      -> [ ns EXCEPT ![m.node].binary = m.value ]

\* an entry of log: the message of value v was applied by a thread, or dropped
Event(m, e) == [ value |-> m.value, event |-> e ]

\* the payload's owner after receive_binary took it over
Delivered(pl, m) == IF m.type = "binary" THEN [ pl EXCEPT ![m.value] = "node" ] ELSE pl

\* delete [] ptr, lines 57-60: a second delete of the same buffer is recorded
Released(pl, m) ==
  IF m.type = "binary"
  THEN [ pl EXCEPT ![m.value] = IF @ = "message" THEN "released" ELSE "double" ]
  ELSE pl

(***************************************************************************)
(* The sample conversion of audio_callback, lines 87-98.  A sample of the  *)
(* evaluated block is the rational n / d.                                  *)
(***************************************************************************)
\* conversion of a float to Sint16 truncates toward zero
Truncate(n, d) == IF n >= 0 THEN n \div d ELSE -((-n) \div d)

\* a faulty variant of ConvertSample that also clamps the sample -1
ConvertSampleClampingMinusOne(n, d) ==
  IF n <= -d THEN minimum_value
  ELSE IF n >= d THEN maximum_value
  ELSE Truncate(n * maximum_value, d)

\* lines 91-97: the conversion of one sample
ConvertSample(n, d) ==
  IF n < -d THEN minimum_value
  ELSE IF n >= d THEN maximum_value
  ELSE Truncate(n * maximum_value, d)

Samples == (-SampleMax) .. SampleMax
ConvertBlock(b) == [ i \in 1..Len(b) |-> ConvertSample(b[i], SampleDen) ]
Silence(n) == [ i \in 1..n |-> 0 ]
AllBlocks == [ 1..BlockLen -> Samples ]

(***************************************************************************)
(* Initial state: nothing created, no graph installed, device running.     *)
(***************************************************************************)
EmptyTree == [ addr |-> nullptr, order |-> << >>, links |-> << >> ]
NoBatch == [ open |-> FALSE, v |-> << >> ]
NoBuild == [ order |-> << >>, marked |-> << >>, new |-> EmptyTree, old |-> nullptr ]
NoRebuild == [ outcome |-> "none", before |-> {}, connects |-> << >>,
               disconnects |-> << >> ]

Init ==
  /\ node_storage = << >>
  /\ node_storage_counter = 0
  /\ main_node_tree = EmptyTree
  /\ msg_queue = << >>
  /\ links = NoBatch
  /\ pc_ctl = "idle"
  /\ msg = NoMessage
  /\ rep = 0
  /\ build = NoBuild
  /\ pc_cb = "idle"
  /\ cb_tree = nullptr
  /\ dev_lock = "free"
  /\ result = Silence(BlockLen)
  /\ stream = Silence(BlockLen)
  /\ tree_heap = {}
  /\ fault = ""
  /\ report = ""
  /\ cb_report = ""
  /\ issued = 0
  /\ log = << >>
  /\ payload = << >>
  /\ rebuild = NoRebuild

renderVars == << pc_cb, cb_tree, result, stream, cb_report >>
sendVars == << msg, rep, issued, payload >>
graphVars == << main_node_tree, links, build, tree_heap >>

\* the control thread is between two FFI calls
Idle == pc_ctl = "idle" /\ fault = ""

(***************************************************************************)
(* Node lifecycle, lines 156-185.                                          *)
(***************************************************************************)
\* audionodes_create_node: the identifier is taken even for an invalid type
audionodes_create_node(type) ==
  /\ Idle
  /\ rebuild' = NoRebuild
  /\ node_storage_counter' = node_storage_counter + 1
  /\ IF type \in NodeTypes
     THEN /\ node_storage' = Put(node_storage, node_storage_counter, NewNode(type))
          /\ report' = ""
     ELSE /\ node_storage' = node_storage
          /\ report' = "Tried to create node of invalid type"
  /\ UNCHANGED << msg_queue, pc_ctl, dev_lock, fault, log >>
  /\ UNCHANGED << renderVars, sendVars, graphVars >>

\* Node::copy_input_values: the values set from outside, not the marks
CopyInputValues(new, old) ==
  [ new EXCEPT !.input_value = old.input_value, !.property = old.property,
               !.binary = old.binary ]

\* audionodes_copy_node: old_id is not looked up before node_storage[old_id]
audionodes_copy_node(old_id, type) ==
  /\ Idle
  /\ rebuild' = NoRebuild
  /\ node_storage_counter' = node_storage_counter + 1
  /\ IF type \notin NodeTypes
     THEN /\ node_storage' = node_storage
          /\ report' = "Tried to create node of invalid type"
          /\ fault' = fault
     ELSE IF Exists(old_id)
     THEN /\ node_storage' = Put(node_storage, node_storage_counter,
                                 CopyInputValues(NewNode(type), node_storage[old_id]))
          /\ report' = ""
          /\ fault' = fault
     ELSE /\ node_storage' = Put(node_storage, node_storage_counter, NewNode(type))
          /\ report' = ""
          /\ fault' = "null dereference"
  /\ UNCHANGED << msg_queue, pc_ctl, dev_lock, log >>
  /\ UNCHANGED << renderVars, sendVars, graphVars >>

audionodes_remove_node(id) ==
  /\ Idle
  /\ rebuild' = NoRebuild
  /\ IF Exists(id)
     THEN /\ node_storage' = [ node_storage EXCEPT ![id].mark_deletion = TRUE ]
          /\ report' = ""
     ELSE /\ node_storage' = node_storage
          /\ report' = "Tried to remove non-existent node"
  /\ UNCHANGED << node_storage_counter, msg_queue, pc_ctl, dev_lock, fault, log >>
  /\ UNCHANGED << renderVars, sendVars, graphVars >>

(***************************************************************************)
(* Parameter updates, lines 187-212, and send_message, lines 47-68.        *)
(***************************************************************************)
\* the three FFI calls differ in the message they build; the k-th update of
\* the run carries the value k
UpdateNode(type, id) ==
  /\ Idle
  /\ rebuild' = NoRebuild
  /\ IF Exists(id)
     THEN /\ msg' = Message(type, id, issued + 1)
          /\ issued' = issued + 1
          /\ payload' = IF type = "binary" THEN Put(payload, issued + 1, "message")
                        ELSE payload
          /\ pc_ctl' = "send"
          /\ report' = ""
     ELSE /\ UNCHANGED << msg, issued, payload, pc_ctl >>
          /\ report' = "Tried to update non-existent node"
  /\ rep' = 0
  /\ UNCHANGED << node_storage, node_storage_counter, msg_queue, dev_lock, fault,
                  log >>
  /\ UNCHANGED << renderVars, graphVars >>

audionodes_update_node_input_value(id) == UpdateNode("audio_input", id)
audionodes_update_node_property_value(id) == UpdateNode("property", id)
audionodes_send_node_binary_data(id) == UpdateNode("binary", id)

\* line 48 and lines 64-67: a node not marked connected gets the message at once
SendCheck ==
  /\ pc_ctl = "send" /\ fault = ""
  /\ IF node_storage[msg.node].mark_connected
     THEN /\ pc_ctl' = "wait"
          /\ UNCHANGED << node_storage, log, payload, msg >>
     ELSE /\ node_storage' = ApplyTo(node_storage, msg)
          /\ log' = Append(log, Event(msg, "applied by control"))
          /\ payload' = Delivered(payload, msg)
          /\ pc_ctl' = "idle"
          /\ msg' = NoMessage
  /\ UNCHANGED << node_storage_counter, msg_queue, dev_lock, fault, report, rep,
                  issued >>
  /\ UNCHANGED << renderVars, graphVars, rebuild >>

\* a faulty variant of SendWait that gives up after the first wait
SendWaitOnce ==
  /\ pc_ctl = "wait" /\ fault = ""
  /\ IF rep < 1 /\ Full(msg_queue)
     THEN rep' = rep + 1 /\ pc_ctl' = pc_ctl
     ELSE rep' = rep /\ pc_ctl' = "push"
  /\ UNCHANGED << node_storage, node_storage_counter, msg_queue, dev_lock, fault,
                  report, log, msg, issued, payload >>
  /\ UNCHANGED << renderVars, graphVars, rebuild >>

\* lines 51-53: one turn of the wait loop, or its exit
SendWait ==
  /\ pc_ctl = "wait" /\ fault = ""
  /\ IF rep < MaxRep /\ Full(msg_queue)
     THEN rep' = rep + 1 /\ pc_ctl' = pc_ctl
     ELSE rep' = rep /\ pc_ctl' = "push"
  /\ UNCHANGED << node_storage, node_storage_counter, msg_queue, dev_lock, fault,
                  report, log, msg, issued, payload >>
  /\ UNCHANGED << renderVars, graphVars, rebuild >>

\* a faulty variant of SendPush that puts the message at the queue's head
SendPushAtHead ==
  /\ pc_ctl = "push" /\ fault = ""
  /\ IF Full(msg_queue)
     THEN /\ report' = "Unable to communicate with execution thread"
          /\ payload' = Released(payload, msg)
          /\ msg_queue' = msg_queue
          /\ log' = Append(log, Event(msg, "dropped"))
     ELSE /\ report' = report
          /\ payload' = payload
          /\ msg_queue' = << msg >> \o msg_queue
          /\ log' = log
  /\ pc_ctl' = "idle"
  /\ msg' = NoMessage
  /\ rep' = 0
  /\ UNCHANGED << node_storage, node_storage_counter, dev_lock, fault, issued >>
  /\ UNCHANGED << renderVars, graphVars, rebuild >>

\* lines 55-63
SendPush ==
  /\ pc_ctl = "push" /\ fault = ""
  /\ IF Full(msg_queue)
     THEN /\ report' = "Unable to communicate with execution thread"
          /\ payload' = Released(payload, msg)
          /\ msg_queue' = msg_queue
          /\ log' = Append(log, Event(msg, "dropped"))
     ELSE /\ report' = report
          /\ payload' = payload
          /\ msg_queue' = Push(msg_queue, msg)
          /\ log' = log
  /\ pc_ctl' = "idle"
  /\ msg' = NoMessage
  /\ rep' = 0
  /\ UNCHANGED << node_storage, node_storage_counter, dev_lock, fault, issued >>
  /\ UNCHANGED << renderVars, graphVars, rebuild >>

(***************************************************************************)
(* The construction-link batch, lines 214-225.                             *)
(***************************************************************************)
\* one batch is open at a time; the record of the last rebuild ends here
audionodes_begin_tree_update ==
  /\ Idle
  /\ ~links.open
  /\ links' = [ open |-> TRUE, v |-> << >> ]
  /\ rebuild' = NoRebuild
  /\ report' = ""
  /\ UNCHANGED << node_storage, node_storage_counter, main_node_tree, msg_queue,
                  pc_ctl, build, dev_lock, tree_heap, fault, log >>
  /\ UNCHANGED << renderVars, sendVars >>

\* an unknown endpoint is reported and the link is pushed all the same
audionodes_add_tree_update_link(from_node, to_node, from_socket, to_socket) ==
  /\ Idle
  /\ links.open
  /\ report' = IF ~Exists(from_node) \/ ~Exists(to_node)
               THEN "Tried to create a link to/from non-existent node" ELSE ""
  /\ links' = [ links EXCEPT !.v = Append(@, ConstructionLink(from_node, to_node,
                                                   from_socket, to_socket)) ]
  /\ UNCHANGED << node_storage, node_storage_counter, main_node_tree, msg_queue,
                  pc_ctl, build, dev_lock, tree_heap, fault, log >>
  /\ rebuild' = NoRebuild
  /\ UNCHANGED << renderVars, sendVars >>

\* a faulty variant of ConnectNodes that forgets line 299's test and calls
\* every node of the order back
RECURSIVE ConnectEveryNode(_, _)
ConnectEveryNode(st, order) ==
  IF order = << >> THEN st
  ELSE LET id == Head(order) IN
    ConnectEveryNode([ ns |-> [ st.ns EXCEPT ![id].mark_connected = TRUE,
                                             ![id].tmp_connected = TRUE ],
                       calls |-> Append(st.calls, id) ], Tail(order))

(***************************************************************************)
(* audionodes_finish_tree_update, lines 227-333.                           *)
(***************************************************************************)
\* a faulty variant of ConnectNodes that calls the nodes back and leaves
\* mark_connected as it was
RECURSIVE ConnectWithoutMarking(_, _)
ConnectWithoutMarking(st, order) ==
  IF order = << >> THEN st
  ELSE LET id == Head(order) IN
    IF ~st.ns[id].mark_connected
    THEN ConnectWithoutMarking([ ns |-> [ st.ns EXCEPT ![id].tmp_connected = TRUE ],
                                 calls |-> Append(st.calls, id) ], Tail(order))
    ELSE ConnectWithoutMarking([ ns |-> [ st.ns EXCEPT ![id].tmp_connected = TRUE ],
                                 calls |-> st.calls ], Tail(order))

\* lines 298-304: st = [ns, calls], the nodes and the connect_callback calls
RECURSIVE ConnectNodes(_, _)
ConnectNodes(st, order) ==
  IF order = << >> THEN st
  ELSE LET id == Head(order) IN
    IF ~st.ns[id].mark_connected
    THEN ConnectNodes([ ns |-> [ st.ns EXCEPT ![id].mark_connected = TRUE,
                                              ![id].tmp_connected = TRUE ],
                        calls |-> Append(st.calls, id) ], Tail(order))
    ELSE ConnectNodes([ ns |-> [ st.ns EXCEPT ![id].tmp_connected = TRUE ],
                        calls |-> st.calls ], Tail(order))

\* lines 316-323, over node_storage in its order: ids is what is left of it
RECURSIVE DisconnectNodes(_, _)
DisconnectNodes(st, ids) ==
  IF ids = << >> THEN st
  ELSE LET id == Head(ids) IN
    IF ~st.ns[id].tmp_connected /\ st.ns[id].mark_connected
    THEN DisconnectNodes([ ns |-> [ st.ns EXCEPT ![id].mark_connected = FALSE,
                                                 ![id].tmp_connected = FALSE ],
                           calls |-> Append(st.calls, id) ], Tail(ids))
    ELSE DisconnectNodes([ ns |-> [ st.ns EXCEPT ![id].tmp_connected = FALSE ],
                           calls |-> st.calls ], Tail(ids))

\* lines 326-330: node_storage without the deleted nodes
EraseNodes(ns, marked) == [ id \in (DOMAIN ns) \ Range(marked) |-> ns[id] ]

\* operator new for a NodeTree: an address not in use
NewTreeAddr(heap) == CHOOSE a \in TreeAddrs : a \notin heap

\* a faulty variant of FinishBuild that marks the nodes it reached connected
\* before it looks for a loop
FinishBuildConnectingFirst ==
  /\ Idle
  /\ links.open
  /\ LET r == BuildOrder(node_storage, links.v)
         c == ConnectNodes([ ns |-> node_storage, calls |-> << >> ], r.order)
         before == Range(main_node_tree.order)
     IN IF r.fault # NoNode
        THEN /\ fault' = "null dereference"
             /\ rebuild' = [ NoRebuild EXCEPT !.outcome = "fault", !.before = before ]
             /\ UNCHANGED << node_storage, links, build, tree_heap, pc_ctl, report >>
        ELSE IF r.loop
        THEN /\ report' = "Error building tree: loop found"
             /\ links' = NoBatch
             /\ rebuild' = [ NoRebuild EXCEPT !.outcome = "failed", !.before = before ]
             /\ node_storage' = [ id \in DOMAIN node_storage |->
                                    IF id \in r.tp
                                    THEN [ node_storage[id] EXCEPT !.mark_connected = TRUE ]
                                    ELSE node_storage[id] ]
             /\ UNCHANGED << build, tree_heap, pc_ctl, fault >>
        ELSE /\ node_storage' = c.ns
             /\ build' = [ order |-> r.order, marked |-> r.marked,
                           new |-> [ addr |-> NewTreeAddr(tree_heap),
                                     order |-> r.order, links |-> r.links ],
                           old |-> main_node_tree.addr ]
             /\ tree_heap' = tree_heap \cup { NewTreeAddr(tree_heap) }
             /\ rebuild' = [ outcome |-> "building", before |-> before,
                             connects |-> c.calls, disconnects |-> << >> ]
             /\ pc_ctl' = "lock"
             /\ report' = ""
             /\ UNCHANGED << links, fault >>
  /\ UNCHANGED << node_storage_counter, main_node_tree, msg_queue, dev_lock, log >>
  /\ UNCHANGED << renderVars, sendVars >>

\* lines 228-308: the order is computed; on a loop the call ends here, else
\* the newly connected nodes are called back and the new NodeTree is made
FinishBuild ==
  /\ Idle
  /\ links.open
  /\ LET r == BuildOrder(node_storage, links.v)
         c == ConnectNodes([ ns |-> node_storage, calls |-> << >> ], r.order)
         before == Range(main_node_tree.order)
     IN IF r.fault # NoNode
        THEN /\ fault' = "null dereference"
             /\ rebuild' = [ NoRebuild EXCEPT !.outcome = "fault", !.before = before ]
             /\ UNCHANGED << node_storage, links, build, tree_heap, pc_ctl, report >>
        ELSE IF r.loop
        THEN /\ report' = "Error building tree: loop found"
             /\ links' = NoBatch
             /\ rebuild' = [ NoRebuild EXCEPT !.outcome = "failed", !.before = before ]
             /\ UNCHANGED << node_storage, build, tree_heap, pc_ctl, fault >>
        ELSE /\ node_storage' = c.ns
             /\ build' = [ order |-> r.order, marked |-> r.marked,
                           new |-> [ addr |-> NewTreeAddr(tree_heap),
                                     order |-> r.order, links |-> r.links ],
                           old |-> main_node_tree.addr ]
             /\ tree_heap' = tree_heap \cup { NewTreeAddr(tree_heap) }
             /\ rebuild' = [ outcome |-> "building", before |-> before,
                             connects |-> c.calls, disconnects |-> << >> ]
             /\ pc_ctl' = "lock"
             /\ report' = ""
             /\ UNCHANGED << links, fault >>
  /\ UNCHANGED << node_storage_counter, main_node_tree, msg_queue, dev_lock, log >>
  /\ UNCHANGED << renderVars, sendVars >>

\* a faulty variant of SDL_LockAudioDevice that does not wait for the callback
LockWithoutWaiting ==
  /\ pc_ctl = "lock" /\ fault = ""
  /\ dev_lock' = "control"
  /\ pc_ctl' = "swap"
  /\ UNCHANGED << node_storage, node_storage_counter, main_node_tree, msg_queue, links,
                  build, tree_heap, fault, report, log, rebuild >>
  /\ UNCHANGED << renderVars, sendVars >>

\* line 310: SDL_LockAudioDevice returns once no callback is running
SDL_LockAudioDevice ==
  /\ pc_ctl = "lock" /\ fault = ""
  /\ dev_lock = "free"
  /\ dev_lock' = "control"
  /\ pc_ctl' = "swap"
  /\ UNCHANGED << node_storage, node_storage_counter, main_node_tree, msg_queue, links,
                  build, tree_heap, fault, report, log, rebuild >>
  /\ UNCHANGED << renderVars, sendVars >>

\* line 311
FinishSwap ==
  /\ pc_ctl = "swap" /\ fault = ""
  /\ main_node_tree' = build.new
  /\ pc_ctl' = "unlock"
  /\ UNCHANGED << node_storage, node_storage_counter, msg_queue, links, build,
                  dev_lock, tree_heap, fault, report, log, rebuild >>
  /\ UNCHANGED << renderVars, sendVars >>

\* line 312
SDL_UnlockAudioDevice ==
  /\ pc_ctl = "unlock" /\ fault = ""
  /\ dev_lock' = "free"
  /\ pc_ctl' = "retire"
  /\ UNCHANGED << node_storage, node_storage_counter, main_node_tree, msg_queue, links,
                  build, tree_heap, fault, report, log, rebuild >>
  /\ UNCHANGED << renderVars, sendVars >>

\* lines 313-323: the old NodeTree is deleted, the nodes that left the order
\* are called back
FinishRetire ==
  /\ pc_ctl = "retire" /\ fault = ""
  /\ LET d == DisconnectNodes([ ns |-> node_storage, calls |-> << >> ],
                              SortedSeq(DOMAIN node_storage))
     IN /\ node_storage' = d.ns
        /\ rebuild' = [ rebuild EXCEPT !.disconnects = d.calls ]
  /\ tree_heap' = tree_heap \ { build.old }
  /\ pc_ctl' = "cleanup"
  /\ UNCHANGED << node_storage_counter, main_node_tree, msg_queue, links, build,
                  dev_lock, fault, report, log >>
  /\ UNCHANGED << renderVars, sendVars >>

\* lines 325-332: the nodes marked for deletion are deleted and erased
FinishCleanup ==
  /\ pc_ctl = "cleanup" /\ fault = ""
  /\ node_storage' = EraseNodes(node_storage, build.marked)
  /\ links' = NoBatch
  /\ build' = NoBuild
  /\ rebuild' = [ rebuild EXCEPT !.outcome = "installed" ]
  /\ pc_ctl' = "idle"
  /\ UNCHANGED << node_storage_counter, main_node_tree, msg_queue, dev_lock, tree_heap,
                  fault, report, log >>
  /\ UNCHANGED << renderVars, sendVars >>

(***************************************************************************)
(* audio_callback, lines 70-99.  SDL calls it with the device lock held.   *)
(***************************************************************************)
\* a faulty variant of CallbackEnter that reports a wrong sample count and
\* goes on all the same
EnterWithoutReturning(len_ok) ==
  /\ pc_cb = "idle" /\ fault = ""
  /\ dev_lock = "free"
  /\ cb_report' = IF len_ok THEN "" ELSE "Unexpected sample count"
  /\ IF main_node_tree.addr = nullptr
     THEN /\ stream' = Silence(BlockLen)
          /\ UNCHANGED << pc_cb, cb_tree, result, dev_lock >>
     ELSE /\ pc_cb' = "drain"
          /\ cb_tree' = main_node_tree.addr
          /\ dev_lock' = "render"
          /\ UNCHANGED << result, stream >>
  /\ UNCHANGED << node_storage, node_storage_counter, main_node_tree, msg_queue,
                  links, pc_ctl, build, tree_heap, fault, report, log, rebuild >>
  /\ UNCHANGED sendVars

\* lines 72-82: a wrong sample count is reported, no graph gives silence
CallbackEnter(len_ok) ==
  /\ pc_cb = "idle" /\ fault = ""
  /\ dev_lock = "free"
  /\ IF ~len_ok
     THEN /\ cb_report' = "Unexpected sample count"
          /\ UNCHANGED << pc_cb, cb_tree, result, stream, dev_lock >>
     ELSE IF main_node_tree.addr = nullptr
     THEN /\ stream' = Silence(BlockLen)
          /\ cb_report' = ""
          /\ UNCHANGED << pc_cb, cb_tree, result, dev_lock >>
     ELSE /\ pc_cb' = "drain"
          /\ cb_tree' = main_node_tree.addr
          /\ dev_lock' = "render"
          /\ cb_report' = ""
          /\ UNCHANGED << result, stream >>
  /\ UNCHANGED << node_storage, node_storage_counter, main_node_tree, msg_queue,
                  links, pc_ctl, build, tree_heap, fault, report, log, rebuild >>
  /\ UNCHANGED sendVars

\* lines 83-86, one turn: the target may have been deleted since the push
CallbackPop ==
  /\ pc_cb = "drain" /\ fault = ""
  /\ ~Empty(msg_queue)
  /\ LET m == Pop(msg_queue).msg IN
       /\ msg_queue' = Pop(msg_queue).queue
       /\ IF Exists(m.node)
          THEN /\ node_storage' = ApplyTo(node_storage, m)
               /\ log' = Append(log, Event(m, "applied by render"))
               /\ payload' = Delivered(payload, m)
               /\ fault' = fault
          ELSE /\ fault' = "use after free"
               /\ UNCHANGED << node_storage, log, payload >>
  /\ UNCHANGED << node_storage_counter, main_node_tree, links, pc_ctl, build,
                  dev_lock, tree_heap, report, rebuild, msg, rep, issued >>
  /\ UNCHANGED renderVars

\* a faulty variant of CallbackEvaluate that does not wait for the queue to drain
EvaluateWithoutDraining(chunk) ==
  /\ pc_cb = "drain" /\ fault = ""
  /\ IF main_node_tree.addr \in tree_heap
        /\ Range(main_node_tree.order) \subseteq DOMAIN node_storage
     THEN result' = chunk /\ stream' = ConvertBlock(chunk) /\ fault' = fault
     ELSE UNCHANGED << result, stream >> /\ fault' = "use after free"
  /\ pc_cb' = "idle"
  /\ cb_tree' = nullptr
  /\ dev_lock' = "free"
  /\ UNCHANGED << node_storage, node_storage_counter, main_node_tree, msg_queue,
                  links, pc_ctl, build, tree_heap, report, log, rebuild,
                  cb_report >>
  /\ UNCHANGED sendVars

\* lines 83 and 87-98: the queue is empty, the graph is evaluated to the block
\* chunk and the block is converted
CallbackEvaluate(chunk) ==
  /\ pc_cb = "drain" /\ fault = ""
  /\ Empty(msg_queue)
  /\ IF main_node_tree.addr \in tree_heap
        /\ Range(main_node_tree.order) \subseteq DOMAIN node_storage
     THEN result' = chunk /\ stream' = ConvertBlock(chunk) /\ fault' = fault
     ELSE UNCHANGED << result, stream >> /\ fault' = "use after free"
  /\ pc_cb' = "idle"
  /\ cb_tree' = nullptr
  /\ dev_lock' = "free"
  /\ UNCHANGED << node_storage, node_storage_counter, main_node_tree, msg_queue,
                  links, pc_ctl, build, tree_heap, report, log, rebuild,
                  cb_report >>
  /\ UNCHANGED sendVars

(***************************************************************************)
(* Specifications.  Each follows the same engine with the calls and the    *)
(* bounds its claims need.                                                 *)
(***************************************************************************)
AnyType == NodeTypes \cup {"invalid"}
ZeroBlock == [ i \in 1..BlockLen |-> 0 ]
\* a block at full scale: every sample is 1
FullBlock == [ i \in 1..BlockLen |-> SampleDen ]

FinishTreeUpdate ==
  \/ FinishBuild
  \/ SDL_LockAudioDevice
  \/ FinishSwap
  \/ SDL_UnlockAudioDevice
  \/ FinishRetire
  \/ FinishCleanup

SendMessage == SendCheck \/ SendWait \/ SendPush

\* The engine: the control thread's node, graph and parameter calls
\* interleaved with the render callback.
Next ==
  \/ \E t \in NodeTypes :
       node_storage_counter < MaxNodes /\ audionodes_create_node(t)
  \/ \E id \in Ids(MaxNodes) : audionodes_remove_node(id)
  \/ \E id \in Ids(MaxNodes) :
       issued < MaxMsgs /\ audionodes_update_node_input_value(id)
  \/ \E id \in Ids(MaxNodes) :
       issued < MaxMsgs /\ audionodes_send_node_binary_data(id)
  \/ SendMessage
  \/ audionodes_begin_tree_update
  \/ \E f \in Ids(MaxNodes), t \in Ids(MaxNodes), fs \in OutputSockets,
        ts \in InputSockets :
       Len(links.v) < MaxLinks /\ audionodes_add_tree_update_link(f, t, fs, ts)
  \/ FinishTreeUpdate
  \/ CallbackEnter(TRUE)
  \/ CallbackPop
  \/ CallbackEvaluate(ZeroBlock)

Spec == Init /\ [][Next]_vars

\* The graph builder on its first graph: nodes are created and removed and
\* link batches submitted until a graph is installed.
FirstGraph == main_node_tree.addr = nullptr

NextBuild ==
  \/ \E t \in NodeTypes :
       /\ FirstGraph /\ node_storage_counter < BuildNodes
       /\ audionodes_create_node(t)
  \/ \E id \in Ids(BuildNodes) : FirstGraph /\ audionodes_remove_node(id)
  \/ FirstGraph /\ audionodes_begin_tree_update
  \/ \E f \in Ids(BuildNodes), t \in Ids(BuildNodes), fs \in OutputSockets,
        ts \in InputSockets :
       Len(links.v) < BuildLinks /\ audionodes_add_tree_update_link(f, t, fs, ts)
  \/ FinishTreeUpdate

SpecBuild == Init /\ [][NextBuild]_vars

\* Successive rebuilds by the control thread alone.
NextGraph ==
  \/ \E t \in NodeTypes :
       node_storage_counter < GraphNodes /\ audionodes_create_node(t)
  \/ \E id \in Ids(GraphNodes) : audionodes_remove_node(id)
  \/ audionodes_begin_tree_update
  \/ \E f \in Ids(GraphNodes), t \in Ids(GraphNodes), fs \in OutputSockets,
        ts \in InputSockets :
       Len(links.v) < GraphLinks /\ audionodes_add_tree_update_link(f, t, fs, ts)
  \/ FinishTreeUpdate

SpecGraph == Init /\ [][NextGraph]_vars

\* The message queue under load: parameter updates of sink nodes against
\* the render callback.
NextQueue ==
  \/ node_storage_counter < QueueNodes /\ audionodes_create_node("sink")
  \/ \E id \in Ids(QueueNodes) :
       issued < QueueMsgs /\ audionodes_update_node_input_value(id)
  \/ \E id \in Ids(QueueNodes) :
       issued < QueueMsgs /\ audionodes_send_node_binary_data(id)
  \/ SendMessage
  \/ audionodes_begin_tree_update
  \/ FinishTreeUpdate
  \/ CallbackEnter(TRUE)
  \/ CallbackPop
  \/ CallbackEvaluate(ZeroBlock)

SpecQueue == Init /\ [][NextQueue]_vars

\* The order of delivery: input updates of connected and unconnected nodes
\* against rebuilds and the render callback.
NextOrder ==
  \/ \E t \in NodeTypes :
       node_storage_counter < OrderNodes /\ audionodes_create_node(t)
  \/ \E id \in Ids(OrderNodes) :
       issued < OrderMsgs /\ audionodes_update_node_input_value(id)
  \/ SendMessage
  \/ audionodes_begin_tree_update
  \/ FinishTreeUpdate
  \/ CallbackEnter(TRUE)
  \/ CallbackPop
  \/ CallbackEvaluate(ZeroBlock)

SpecOrder == Init /\ [][NextOrder]_vars

\* The node-addressed calls with known and unknown identifiers.
NextCalls ==
  \/ \E t \in AnyType :
       node_storage_counter < CallNodes /\ audionodes_create_node(t)
  \/ \E id \in Ids(CallNodes), t \in AnyType :
       node_storage_counter < CallNodes /\ audionodes_copy_node(id, t)
  \/ \E id \in Ids(CallNodes) : audionodes_remove_node(id)
  \/ \E id \in Ids(CallNodes) :
       issued < CallMsgs /\ audionodes_update_node_input_value(id)
  \/ \E id \in Ids(CallNodes) :
       issued < CallMsgs /\ audionodes_update_node_property_value(id)
  \/ \E id \in Ids(CallNodes) :
       issued < CallMsgs /\ audionodes_send_node_binary_data(id)
  \/ SendMessage
  \/ audionodes_begin_tree_update
  \/ FinishTreeUpdate
  \/ CallbackEnter(TRUE)
  \/ CallbackPop
  \/ CallbackEvaluate(ZeroBlock)

SpecCalls == Init /\ [][NextCalls]_vars

\* The render callback over every block a graph may evaluate to, with the
\* right and with a wrong sample count.
NextRender ==
  \/ node_storage_counter < RenderNodes /\ audionodes_create_node("sink")
  \/ audionodes_begin_tree_update
  \/ FinishTreeUpdate
  \/ \E ok \in BOOLEAN : CallbackEnter(ok)
  \/ \E b \in AllBlocks : CallbackEvaluate(b)

SpecRender == Init /\ [][NextRender]_vars

\* Delivery of the queued messages: parameter updates and removals of sink
\* nodes against rebuilds and a render callback that SDL keeps invoking.
\* A call in progress on the control thread runs on; SDL invokes the
\* callback again and again, whenever the device lock lets it.
NextDelivery ==
  \/ node_storage_counter < DeliveryNodes /\ audionodes_create_node("sink")
  \/ \E id \in Ids(DeliveryNodes) : audionodes_remove_node(id)
  \/ \E id \in Ids(DeliveryNodes) :
       issued < DeliveryMsgs /\ audionodes_update_node_input_value(id)
  \/ SendMessage
  \/ audionodes_begin_tree_update
  \/ FinishTreeUpdate
  \/ CallbackEnter(TRUE)
  \/ CallbackPop
  \/ CallbackEvaluate(ZeroBlock)

SpecDelivery ==
  /\ Init /\ [][NextDelivery]_vars
  /\ WF_vars(SendMessage)
  /\ WF_vars(FinishTreeUpdate)
  /\ SF_vars(CallbackEnter(TRUE))
  /\ WF_vars(CallbackPop)
  /\ WF_vars(CallbackEvaluate(ZeroBlock))

\* The callback invoked with the expected and with a wrong sample count,
\* parameter updates of sink nodes pending, the graph evaluating to silence
\* or to full scale.
NextLength ==
  \/ node_storage_counter < LengthNodes /\ audionodes_create_node("sink")
  \/ \E id \in Ids(LengthNodes) :
       issued < LengthMsgs /\ audionodes_update_node_input_value(id)
  \/ SendMessage
  \/ audionodes_begin_tree_update
  \/ FinishTreeUpdate
  \/ \E ok \in BOOLEAN : CallbackEnter(ok)
  \/ CallbackPop
  \/ \E b \in {ZeroBlock, FullBlock} : CallbackEvaluate(b)

SpecLength == Init /\ [][NextLength]_vars

\* Rebuilds that fail: a sink and the nodes feeding it, link batches between
\* them that may close a loop, submitted before and after a graph is
\* installed.
NextLoop ==
  \/ /\ node_storage_counter < LoopNodes
     /\ audionodes_create_node(IF node_storage_counter = 0 THEN "sink" ELSE "osc")
  \/ audionodes_begin_tree_update
  \/ \E f \in Ids(LoopNodes), t \in Ids(LoopNodes), fs \in OutputSockets,
        ts \in InputSockets :
       Len(links.v) < LoopLinks /\ audionodes_add_tree_update_link(f, t, fs, ts)
  \/ FinishTreeUpdate

SpecLoop == Init /\ [][NextLoop]_vars

(***************************************************************************)
(* Claims about the graph builder.  The graph of a batch is read off the   *)
(* links themselves, not off the builder's passes.                         *)
(***************************************************************************)
\* the nodes one link away: sources of the links into a node of S
Sources(ls, S) == { ls[i].from_node : i \in { j \in 1..Len(ls) : ls[j].to_node \in S } }

\* the nodes S reaches backward over links in one or more steps
RECURSIVE Upstream(_, _, _)
Upstream(ls, S, seen) ==
  LET new == Sources(ls, S) \ seen
  IN IF new = {} THEN seen ELSE Upstream(ls, new, seen \cup new)

\* the batch has a directed cycle through n
OnCycle(ls, n) == n \in Upstream(ls, {n}, {})
Acyclic(ls) == \A i \in 1..Len(ls) : ~OnCycle(ls, ls[i].from_node)

\* the live, non-deleted nodes
Live(ns) == { id \in DOMAIN ns : ~ns[id].mark_deletion }
\* the links between such nodes
LiveLinks(ns, ls) ==
  SelectSeq(ls, LAMBDA l : l.from_node \in Live(ns) /\ l.to_node \in Live(ns))
\* the non-deleted nodes with a backward path, through non-deleted sources,
\* to a non-deleted sink
Influencing(ns, ls) ==
  LET sinks == { id \in Live(ns) : ns[id].is_sink }
  IN sinks \cup Upstream(LiveLinks(ns, ls), sinks, {})
\* a directed cycle all of whose nodes influence a sink
SinkCycle(ns, ls) ==
  LET inf == Influencing(ns, ls)
      among == SelectSeq(ls, LAMBDA l : l.from_node \in inf /\ l.to_node \in inf)
  IN \E n \in inf : OnCycle(among, n)

\* the new graph is in place and its batch not yet deleted
JustSwapped == pc_ctl = "unlock" /\ fault = ""

\* C1: after finish_tree_update installed the graph of an acyclic batch,
\* every present resolved link has a source position strictly below the
\* position of the node that owns it, and the node at that position is the
\* from_node of a construction link into that socket of the owner.
C1_ProducersBeforeConsumers ==
  (JustSwapped /\ Acyclic(links.v)) =>
    \A i \in 1..Len(main_node_tree.order) : \A s \in InputSockets :
      LET l == main_node_tree.links[i][s] IN
        l.present =>
          /\ l.from_node < i - 1
          /\ \E k \in 1..Len(links.v) :
               /\ links.v[k].to_node = main_node_tree.order[i]
               /\ links.v[k].to_socket = s
               /\ links.v[k].from_node = main_node_tree.order[l.from_node + 1]

\* C2: a finish_tree_update whose batch has a directed cycle among nodes
\* that influence a non-deleted sink reports the build failure, ends without
\* replacing main_node_tree, and leaves the active graph as it was.
C2_SinkCycleFailsBuild ==
  [][ (FinishBuild /\ SinkCycle(node_storage, links.v)) =>
        /\ report' = "Error building tree: loop found"
        /\ rebuild'.outcome = "failed"
        /\ pc_ctl' = "idle"
        /\ main_node_tree' = main_node_tree ]_vars

\* C3: a successful finish_tree_update installs exactly the non-deleted
\* nodes that influence a non-deleted sink, and a build fails only on a
\* cycle among such nodes: nodes that influence no sink never fail it.
C3_ExactlyInfluencingNodes ==
  [][ FinishBuild =>
        /\ rebuild'.outcome = "building" =>
             Range(build'.order) = Influencing(node_storage, links.v)
        /\ rebuild'.outcome = "failed" => SinkCycle(node_storage, links.v) ]_vars

(***************************************************************************)
(* Claims about node lifetime and the connection callbacks.                *)
(***************************************************************************)
NoDuplicates(q) == \A i, j \in 1..Len(q) : q[i] = q[j] => i = j

\* C4: a removed node stays in node_storage, marked, until a rebuild
\* succeeds: a node leaves node_storage only in the last step of a
\* successful finish_tree_update, after main_node_tree was replaced by a
\* graph whose order and resolved links do not reference it; that step frees
\* every marked node, and a failed rebuild frees none.
C4_RemovedNodeFreedAfterInstall ==
  [][ /\ \A id \in DOMAIN node_storage :
           IF id \in DOMAIN node_storage'
           THEN node_storage[id].mark_deletion => node_storage'[id].mark_deletion
           ELSE /\ node_storage[id].mark_deletion
                /\ pc_ctl = "cleanup" /\ rebuild.outcome = "building"
                /\ main_node_tree = build.new
                /\ id \notin Range(main_node_tree.order)
      /\ (pc_ctl = "idle" /\ pc_ctl' = "lock") =>
           \A i \in 1..Len(build'.new.order) :
             /\ build'.new.order[i] \in DOMAIN node_storage
             /\ ~node_storage[build'.new.order[i]].mark_deletion
             /\ \A s \in InputSockets :
                  build'.new.links[i][s].present =>
                    build'.new.links[i][s].from_node + 1 \in 1..Len(build'.new.order)
      /\ (pc_ctl = "cleanup" /\ pc_ctl' = "idle") =>
           /\ \A id \in DOMAIN node_storage' : ~node_storage'[id].mark_deletion
           /\ Range(main_node_tree'.order) \subseteq DOMAIN node_storage'
      /\ rebuild'.outcome = "failed" => node_storage' = node_storage ]_vars

\* a rebuild has installed its graph and freed a removed node
C4_Witness ==
  /\ rebuild.outcome = "installed"
  /\ main_node_tree.order # << >>
  /\ \E id \in Ids(node_storage_counter) : id \notin DOMAIN node_storage

\* C5: in every rebuild, connect_callback is called exactly once on each
\* node that enters the evaluation order and on no other node,
\* disconnect_callback exactly once on each node that leaves it and on no
\* other node, and a failed rebuild calls neither.
C5_CallbacksOncePerTransition ==
  LET new == IF rebuild.outcome = "installed" THEN Range(main_node_tree.order)
             ELSE Range(build.order)
  IN /\ rebuild.outcome \in {"building", "installed"} =>
          /\ NoDuplicates(rebuild.connects)
          /\ Range(rebuild.connects) = new \ rebuild.before
     /\ rebuild.outcome = "installed" =>
          /\ NoDuplicates(rebuild.disconnects)
          /\ Range(rebuild.disconnects) = rebuild.before \ new
     /\ rebuild.outcome = "failed" =>
          rebuild.connects = << >> /\ rebuild.disconnects = << >>

\* a rebuild in which one node entered the order and another left it
C5_Witness ==
  /\ rebuild.outcome = "installed"
  /\ rebuild.connects # << >>
  /\ rebuild.disconnects # << >>

(***************************************************************************)
(* Claims about the message queue.                                         *)
(***************************************************************************)
Increasing(q) == \A i, j \in 1..Len(q) : i < j => q[i] < q[j]
Values(q) == [ i \in 1..Len(q) |-> q[i].value ]
Applied(l) == SelectSeq(l, LAMBDA e : e.event # "dropped")
AppliedByRender(l) == SelectSeq(l, LAMBDA e : e.event = "applied by render")
Dropped(l) == SelectSeq(l, LAMBDA e : e.event = "dropped")

\* C6 as claimed: of two updates that were both applied, the one issued
\* first (the smaller value) was applied first.
C6_AppliedInIssueOrder == Increasing(Values(Applied(log)))

\* C6 as amended: the messages pushed onto msg_queue are applied by the
\* render thread in the order they were pushed, which is the order they were
\* issued in; a message applied directly by the control thread may overtake
\* the messages still queued.
C6_QueuedAppliedInPushOrder ==
  /\ Increasing(Values(msg_queue))
  /\ Increasing(Values(AppliedByRender(log)))
  /\ \A i \in 1..Len(log) : \A j \in 1..Len(msg_queue) :
       log[i].event = "applied by render" => log[i].value < msg_queue[j].value

\* the render thread has applied two queued messages of one drain
C6_Witness ==
  /\ Len(AppliedByRender(log)) >= 2
  /\ pc_cb = "drain"

\* every update issued so far is in exactly one place: being sent, queued,
\* applied or dropped
Accounted ==
  LET places == Values(log) \o Values(msg_queue)
                \o (IF msg.node = NoNode THEN << >> ELSE << msg.value >>)
  IN NoDuplicates(places) /\ Range(places) = 1..issued

\* C7: send_message waits at most MaxRep times and msg_queue never holds
\* more than its capacity; a message is pushed only onto a queue with room;
\* a message is dropped only after the last wait with the queue full, and
\* then the failure is reported and a binary payload, still owned by the
\* message, is released, once; and no message is lost otherwise.
C7_BoundedWaitThenReportedDrop ==
  [][ /\ rep' <= MaxRep
      /\ Len(msg_queue') <= QueueCapacity
      /\ Accounted'
      /\ \A v \in DOMAIN payload' : payload'[v] # "double"
      /\ Len(msg_queue') > Len(msg_queue) =>
           /\ ~Full(msg_queue)
           /\ msg_queue' = Append(msg_queue, msg)
           /\ log' = log /\ payload' = payload
      /\ Len(Dropped(log')) > Len(Dropped(log)) =>
           /\ rep = MaxRep /\ Full(msg_queue)
           /\ msg_queue' = msg_queue
           /\ log' = Append(log, Event(msg, "dropped"))
           /\ report' = "Unable to communicate with execution thread"
           /\ msg.type = "binary" =>
                payload[msg.value] = "message" /\ payload'[msg.value] = "released"
      /\ (pc_ctl = "push" /\ pc_ctl' = "idle") =>
           IF Full(msg_queue)
           THEN Len(Dropped(log')) > Len(Dropped(log))
           ELSE Len(msg_queue') > Len(msg_queue) ]_vars

\* a binary message was dropped after the last wait and its payload released
C7_Witness ==
  \E i \in 1..Len(log) :
    /\ log[i].event = "dropped"
    /\ log[i].value \in DOMAIN payload
    /\ payload[log[i].value] = "released"
    /\ Len(msg_queue) = QueueCapacity

(***************************************************************************)
(* Claims about the render callback.                                       *)
(***************************************************************************)
\* k is the product of n / d and maximum_value, truncated toward zero
ScaledBy(k, n, d) ==
  IF n >= 0
  THEN k * d <= n * maximum_value /\ n * maximum_value < (k + 1) * d
  ELSE (k - 1) * d < n * maximum_value /\ n * maximum_value <= k * d

\* the conversion as claimed: a sample of -1 or less gives minimum_value
ClaimedSample(n, d) ==
  IF n <= -d THEN minimum_value
  ELSE IF n >= d THEN maximum_value
  ELSE Truncate(n * maximum_value, d)

\* stream holds the conversion of result, the block of the last callback that
\* evaluated a graph (both are silence before the first)
\* C8 as claimed: audio_callback converts a sample v <= -1 to -32768, a
\* sample v >= 1 to 32767 and any other sample to v scaled by 32767.
C8_ClampsAtMinusOne ==
  stream = [ i \in 1..BlockLen |-> ClaimedSample(result[i], SampleDen) ]

\* C8 as amended: audio_callback converts a sample v < -1 to -32768, a
\* sample v >= 1 to 32767 and any other sample to v * 32767 truncated toward
\* zero, so that -1 gives -32767: the block [-2, -1, 0, 0.5, 1, 2] converts
\* to [-32768, -32767, 0, 16383, 32767, 32767]; the output is never outside
\* [-32768, 32767].
C8_ClampsBelowMinusOne ==
  /\ \A i \in 1..BlockLen :
       /\ minimum_value <= stream[i] /\ stream[i] <= maximum_value
       /\ IF result[i] < -SampleDen THEN stream[i] = minimum_value
          ELSE IF result[i] >= SampleDen THEN stream[i] = maximum_value
          ELSE ScaledBy(stream[i], result[i], SampleDen)
  /\ << ConvertSample(-2, 1), ConvertSample(-1, 1), ConvertSample(0, 1),
        ConvertSample(1, 2), ConvertSample(1, 1), ConvertSample(2, 1) >>
       = << -32768, -32767, 0, 16383, 32767, 32767 >>

\* a callback has converted a block holding the sample -1
C8_Witness ==
  /\ pc_cb = "idle"
  /\ main_node_tree.addr # nullptr
  /\ \E i \in 1..BlockLen : result[i] = -SampleDen /\ stream[i] = -maximum_value

\* C9: main_node_tree is never replaced while audio_callback runs; a running
\* callback reads, from its start to its end, the graph that is installed,
\* and that graph is alive: the old graph is deleted only after the swap
\* and the unlock, when no callback reads it.
C9_SwapExcludesCallback ==
  /\ ~(pc_ctl \in {"swap", "unlock"} /\ pc_cb # "idle")
  /\ pc_ctl \in {"swap", "unlock"} => dev_lock = "control"
  /\ pc_cb # "idle" =>
       /\ dev_lock = "render"
       /\ cb_tree = main_node_tree.addr
       /\ cb_tree \in tree_heap
  /\ main_node_tree.addr # nullptr => main_node_tree.addr \in tree_heap
  /\ pc_ctl \in {"lock", "swap"} =>
       build.old = main_node_tree.addr /\ build.new.addr \in tree_heap
  /\ pc_ctl \in {"unlock", "retire"} =>
       /\ main_node_tree = build.new
       /\ build.old # main_node_tree.addr
       /\ build.old # nullptr => build.old \in tree_heap

\* finish_tree_update waits at the device lock while a callback renders the
\* graph it is about to replace
C9_Witness ==
  /\ pc_ctl = "lock"
  /\ pc_cb = "drain"
  /\ build.old # nullptr

(***************************************************************************)
(* Claims about the node-addressed calls.                                  *)
(***************************************************************************)
\* the call reported an error and changed nothing
ReportedNoOp ==
  /\ report' # ""
  /\ fault' = ""
  /\ node_storage' = node_storage
  /\ msg_queue' = msg_queue
  /\ main_node_tree' = main_node_tree

\* C10: remove_node, the three update calls and copy_node, called with an
\* identifier that is not in node_storage, report the error and change
\* neither node_storage nor the queue nor the graph, and dereference no
\* absent node.
C10_UnknownIdIsReportedNoOp ==
  [][ \A id \in Ids(CallNodes) :
        ~Exists(id) =>
          /\ audionodes_remove_node(id) => ReportedNoOp
          /\ audionodes_update_node_input_value(id) => ReportedNoOp
          /\ audionodes_update_node_property_value(id) => ReportedNoOp
          /\ audionodes_send_node_binary_data(id) => ReportedNoOp
          /\ \A t \in AnyType : audionodes_copy_node(id, t) => ReportedNoOp ]_vars

(***************************************************************************)
(* Claims about links with unknown endpoints.                              *)
(***************************************************************************)
\* the links of a batch whose two endpoints are in node_storage
KnownLinks(ns, ls) ==
  SelectSeq(ls, LAMBDA l : l.from_node \in DOMAIN ns /\ l.to_node \in DOMAIN ns)

\* finish_tree_update has just computed (or failed to compute) an order
BuildStep == pc_ctl = "idle" /\ rebuild.outcome = "none" /\ rebuild'.outcome # "none"

\* C11: a link with an endpoint that is not in node_storage is reported when
\* it is added, and the finish_tree_update that follows completes without
\* dereferencing a missing node: it builds the order of the links whose
\* endpoints exist and adds no identifier to node_storage.
C11_UnknownEndpointIgnored ==
  [][ /\ \A f, t \in Ids(GraphNodes) : \A fs \in OutputSockets, ts \in InputSockets :
           (audionodes_add_tree_update_link(f, t, fs, ts)
              /\ (~Exists(f) \/ ~Exists(t))) => report' # ""
      /\ (BuildStep /\ KnownLinks(node_storage, links.v) # links.v) =>
           /\ fault' = ""
           /\ rebuild'.outcome \in {"building", "failed"}
           /\ DOMAIN node_storage' = DOMAIN node_storage
           /\ rebuild'.outcome = "building" =>
                build'.order =
                  BuildOrder(node_storage, KnownLinks(node_storage, links.v)).order
    ]_vars

(***************************************************************************)
(* Claims about the two threads and the nodes' state.                      *)
(***************************************************************************)
\* send_message is about to apply its message on the control thread
DirectApply ==
  pc_ctl = "send" /\ fault = "" /\ ~node_storage[msg.node].mark_connected

\* the identifiers the messages pending in a queue name
Targets(q) == { q[i].node : i \in 1..Len(q) }

\* C12: whenever send_message applies a message on the control thread, the
\* target node is not in the active graph's order and no message to that node
\* is pending in msg_queue, so the render thread does not write the node.
C12_DirectApplyIsExclusive ==
  DirectApply =>
    /\ msg.node \notin Range(main_node_tree.order)
    /\ msg.node \notin Targets(msg_queue)

\* the running callback goes on to evaluate its graph
Evaluates == pc_cb = "drain" /\ pc_cb' = "idle" /\ fault' = ""

\* the values of the messages pushed onto msg_queue so far: every update
\* issued but the one being sent, those applied by the control thread and
\* those dropped
Pushed ==
  { v \in 1..issued :
      /\ ~(msg.node # NoNode /\ msg.value = v)
      /\ \A i \in 1..Len(log) :
           log[i].value = v => log[i].event = "applied by render" }

\* C13: when audio_callback evaluates the graph msg_queue is empty and every
\* message pushed before, those the callback found queued when it started
\* among them, has been applied by the render thread.
C13_DrainedBeforeEvaluate ==
  [][ Evaluates =>
        /\ Empty(msg_queue)
        /\ Pushed \subseteq Range(Values(AppliedByRender(log)))
    ]_vars

\* a callback has emptied a queue of two messages and goes on to evaluate
\* while the control thread is about to push a third
C13_Witness ==
  /\ pc_cb = "drain" /\ fault = ""
  /\ Empty(msg_queue)
  /\ Cardinality(Pushed) >= 2
  /\ pc_ctl = "push"

\* the render thread takes a message off msg_queue
Pops == Len(msg_queue') < Len(msg_queue)

\* the message of value v waits in msg_queue
Queued(v) == \E i \in 1..Len(msg_queue) : msg_queue[i].value = v

\* C14: no message is applied twice; a message the render thread pops is
\* applied to its target node; and, the callback being invoked again and
\* again, every queued message is eventually applied by the render thread.
C14_AppliedExactlyOnce ==
  /\ [] NoDuplicates(Values(Applied(log)))
  /\ [][ Pops =>
           /\ Exists(Head(msg_queue).node)
           /\ node_storage' = ApplyTo(node_storage, Head(msg_queue))
           /\ log' = Append(log, Event(Head(msg_queue), "applied by render"))
       ]_vars
  /\ \A v \in 1..DeliveryMsgs :
       Queued(v) ~> (v \in Range(Values(AppliedByRender(log))))

\* audio_callback has just reported a sample count other than N
Mismatch ==
  cb_report' = "Unexpected sample count" /\ cb_report # "Unexpected sample count"

\* C15: a callback invoked with a wrong sample count reports it and does
\* nothing else: no message is popped, nothing is applied, the graph is not
\* evaluated, the output buffer is not written and the device lock is not
\* kept; the next invocation with the expected count finds the callback
\* free to start and clears the report.
C15_WrongCountIsReportedNoOp ==
  [][ /\ Mismatch =>
           /\ UNCHANGED << msg_queue, node_storage, log, payload, result, stream,
                           pc_cb, cb_tree, dev_lock, main_node_tree, fault >>
           /\ pc_cb' = "idle" /\ dev_lock' = "free"
      /\ (cb_report = "Unexpected sample count" /\ pc_cb = "idle" /\ pc_cb' = "drain") =>
           /\ cb_report' = ""
           /\ cb_tree' = main_node_tree.addr
           /\ UNCHANGED << msg_queue, stream >>
    ]_vars

\* a wrong count was reported with a graph installed, a message pending and
\* a full-scale block in the output buffer: nothing was popped, and the
\* buffer was neither silenced nor rewritten
C15_Witness ==
  /\ cb_report = "Unexpected sample count"
  /\ pc_cb = "idle" /\ dev_lock = "free"
  /\ main_node_tree.addr # nullptr
  /\ ~Empty(msg_queue)
  /\ stream = ConvertBlock(FullBlock)

\* finish_tree_update has just returned at line 275
Failed == rebuild.outcome = "none" /\ rebuild'.outcome = "failed"

\* C16: a finish_tree_update that finds a loop discards the batch, reports
\* the loop and changes nothing else: the active graph, the nodes with
\* their connection and deletion marks, the identifiers in use and the
\* message queue are as before, no callback is invoked and no graph or node
\* is allocated or freed.
C16_FailedBuildChangesNothing ==
  [][ Failed =>
        /\ UNCHANGED << main_node_tree, node_storage, node_storage_counter,
                        msg_queue, tree_heap, build, log, pc_ctl, fault >>
        /\ rebuild'.connects = << >> /\ rebuild'.disconnects = << >>
        /\ links' = NoBatch
        /\ report' = "Error building tree: loop found"
    ]_vars

\* a rebuild failed over an installed graph, one node connected and one not
C16_Witness ==
  /\ rebuild.outcome = "failed"
  /\ main_node_tree.order # << >>
  /\ \E id \in DOMAIN node_storage : node_storage[id].mark_connected
  /\ \E id \in DOMAIN node_storage : ~node_storage[id].mark_connected
  /\ report = "Error building tree: loop found"

\* C17: every message waiting in msg_queue names a node that has not been
\* deleted, so the render thread never applies a message to a freed node.
C17_QueuedTargetsAlive ==
  /\ Targets(msg_queue) \subseteq DOMAIN node_storage
  /\ fault # "use after free"

(***************************************************************************)
(* Claims about the installed graph.                                       *)
(***************************************************************************)
\* C18: in the graph finish_tree_update installs for an acyclic batch every
\* node appears once in the evaluation order, whose length is the number of
\* nodes that influence a sink.
C18_EachNodeOnceInOrder ==
  (JustSwapped /\ Acyclic(links.v)) =>
    /\ NoDuplicates(main_node_tree.order)
    /\ Len(main_node_tree.order) = Cardinality(Influencing(node_storage, links.v))

\* the control thread is not inside finish_tree_update
Settled == pc_ctl \in {"idle", "send", "wait", "push"} /\ fault = ""

\* C19: whenever the device lock lets audio_callback run, every node of the
\* active graph is alive and marked connected; and whenever no rebuild is in
\* progress, a node in node_storage is marked connected exactly if it is in
\* the active graph's evaluation order.
C19_ConnectedIffInActiveGraph ==
  /\ (dev_lock # "control" /\ fault = "") =>
       \A id \in Range(main_node_tree.order) :
         Exists(id) /\ node_storage[id].mark_connected
  /\ Settled =>
       \A id \in DOMAIN node_storage :
         node_storage[id].mark_connected <=> id \in Range(main_node_tree.order)

\* between two rebuilds: the last one took a node out of the graph, which is
\* alive and no longer marked, and kept another, which is marked
C19_Witness ==
  /\ Settled
  /\ rebuild.outcome = "installed" /\ rebuild.disconnects # << >>
  /\ \E id \in DOMAIN node_storage :
       node_storage[id].mark_connected /\ id \in Range(main_node_tree.order)
  /\ \E id \in DOMAIN node_storage :
       ~node_storage[id].mark_connected /\ id \notin Range(main_node_tree.order)
=============================================================================
